---- MODULE Spec2Model ----
(***************************************************************************)
(* Model of src/stock_scraper.py (ActiveTradingStockScraper).              *)
(*                                                                         *)
(*  - get_stock_data_yahoo_fast (the Fetcher) is an operator over the      *)
(*    answers of the yfinance calls it makes for each venue suffix.        *)
(*  - scrape_active_stocks_parallel (the Dispatcher) is a state machine:   *)
(*    the dispatching thread's position, the futures of the current        *)
(*    ThreadPoolExecutor and the two result lists.                         *)
(*  - get_comprehensive_symbol_list (symbol discovery) calls its sources   *)
(*    one by one; each source is an operator over what the network         *)
(*    answers. Strings are sequences of characters.                        *)
(*  - main runs discovery, the Dispatcher, the cleaning step and the save. *)
(*                                                                         *)
(* Numbers are fixed-point integers in thousandths (100000 is 100.000), so *)
(* that round(x, 2) is a real operation: it yields a multiple of 10.       *)
(***************************************************************************)
EXTENDS Integers, Sequences, FiniteSets, TLC

VARIABLES
    \* ---- Dispatcher: scrape_active_stocks_parallel
    max_workers,    \* self.max_workers
    symbols_list,   \* list(symbols)
    pc,             \* position of the dispatching thread
    batch_num,      \* enumerate(batches, 1)
    pool,           \* max_workers of the current ThreadPoolExecutor (0: none)
    nsubmitted,     \* tasks of the current batch already submitted
    fut,            \* symbol -> state and outcome of its future
    yielded,        \* futures as_completed has handed to the loop body
    completed,      \* completed counter of the current batch
    success_count,  \* success_count of the current batch
    batch_stocks,   \* batch_stocks
    all_stocks,     \* all_stocks
    sleeps,         \* number of time.sleep(1) pauses performed
    result,         \* rows of the returned DataFrame
    submits,        \* symbol -> number of executor.submit calls made for it
    \* ---- main
    answer,         \* what the remote source called last answered
    source_sets,    \* the sets the sources returned so far, in call order
    active_symbols, \* active_symbols of main
    stock_data,     \* rows of main's stock_data after the cleaning step
    main_ret,       \* "none" while main runs, then "True" or "False"
    traceback,      \* traceback.print_exc() was called
    \* ---- Fetcher called on its own: get_stock_data_yahoo_fast
    f_symbol,       \* the symbol argument
    f_resp,         \* what the yfinance calls answer, per suffix
    f_pc,           \* "call", "returned" or "raised"
    f_tried,        \* suffixes for which a request was attempted, in order
    f_result,       \* the returned value: <<>> (None) or <<quote>>
    \* ---- the cleaning step of main applied on its own, repeatedly
    c_input,        \* the table it is first applied to
    c_table,        \* the current table
    c_runs          \* how many times the step was applied

dvars == <<max_workers, symbols_list, pc, batch_num, pool, nsubmitted, fut,
           yielded, completed, success_count, batch_stocks, all_stocks,
           sleeps, result, submits>>
mvars == <<answer, source_sets, active_symbols, stock_data, main_ret,
           traceback>>
fvars == <<f_symbol, f_resp, f_pc, f_tried, f_result>>
cvars == <<c_input, c_table, c_runs>>
vars == <<dvars, mvars, fvars, cvars>>

-----------------------------------------------------------------------------
(* Bounds of the model *)

\* symbols handed to the Dispatcher: at most this many
MaxSymbols == 3
\* stands for batch_size = 200 (line 755), scaled down so that a run has
\* several batches
batch_size == 2
\* self.max_workers ranges over -1..MaxWorkers
MaxWorkers == 3
\* the cleaning step on its own is applied to tables of at most this many rows
MaxRows == 3

\* the symbol names. A run's symbols are the first n of them, in this order:
\* list(symbols) may come in any order, and since the answers a fetch meets
\* are drawn independently of the name, every order is a renaming of this one
\* (a string is the sequence of its characters)
AAA == <<"A", "A", "A">>
BBB == <<"B", "B", "B">>
CCC == <<"C", "C", "C">>
DDD == <<"D", "D", "D">>
EEE == <<"E", "E", "E">>
SymbolNames == <<AAA, BBB, CCC, DDD, EEE>>
Symbols == {SymbolNames[i] : i \in 1..MaxSymbols}

-----------------------------------------------------------------------------
(* Python values: a tag and, for numbers, the value in thousandths *)

PyNone == [t |-> "None", v |-> 0]
Missing == [t |-> "missing", v |-> 0]   \* the key is not in the mapping
NaN == [t |-> "nan", v |-> 0]           \* float('nan')
Str == [t |-> "str", v |-> 0]           \* a non-empty, non-numeric string
Num(n) == [t |-> "num", v |-> n]

IsNumber(x) == x.t \in {"num", "nan"}

\* bool(x)
Truthy(x) ==
    CASE x.t = "None" -> FALSE
      [] x.t = "num" -> x.v # 0
      [] x.t = "nan" -> TRUE
      [] x.t = "str" -> TRUE

\* dict.get(key, default)
DictGet(field, default) == IF field.t = "missing" THEN default ELSE field

SubReversed(a, b) == IF a.t = "nan" \/ b.t = "nan" THEN NaN ELSE Num(b.v - a.v)

\* a - b on numbers
Sub(a, b) == IF a.t = "nan" \/ b.t = "nan" THEN NaN ELSE Num(a.v - b.v)

\* nearest integer to n / d (d # 0), ties to the even one
RoundDiv(n, d) ==
    LET nn == IF d < 0 THEN -n ELSE n
        dd == IF d < 0 THEN -d ELSE d
        q == nn \div dd
        rem == nn - q * dd
    IN  IF 2 * rem < dd THEN q
        ELSE IF 2 * rem > dd THEN q + 1
        ELSE IF q % 2 = 0 THEN q ELSE q + 1

\* round(float(x), 2): thousandths to the nearest hundredth
Round2(x) == IF x.t = "nan" THEN NaN ELSE Num(10 * RoundDiv(x.v, 10))

\* change / previous_close * 100 (previous_close # 0), to the nearest
\* hundredth: the exact quotient has no fixed-point value, and line 722 rounds
\* it to 2 places before it is used
PercentRounded(change, previous_close) ==
    IF change.t = "nan" \/ previous_close.t = "nan" THEN NaN
    ELSE Num(10 * RoundDiv(change.v * 10000, previous_close.v))

\* what a division by zero raises
ZeroDivisionError == [t |-> "ZeroDivisionError", v |-> 0]

\* (change / previous_close * 100) if previous_close else 0 (line 701)
ChangePercentUnguarded(change, previous_close) ==
    IF previous_close.t = "num" /\ previous_close.v = 0 THEN ZeroDivisionError
    ELSE PercentRounded(change, previous_close)
ChangePercent(change, previous_close) ==
    IF Truthy(previous_close) THEN PercentRounded(change, previous_close)
    ELSE Num(0)

-----------------------------------------------------------------------------
(* get_stock_data_yahoo_fast *)

Suffixes == <<".NS", ".BO">>

\* control outcomes of a block of the function
Continue == [kind |-> "continue", val |-> <<>>]
Raise == [kind |-> "raise", val |-> <<>>]
Return(q) == [kind |-> "return", val |-> <<q>>]

\* ticker.history(period="1d") and the four reads of its last row, with the
\* bare except around them; the frame's last row is volume 1000, high 101,
\* low 99, open 100
BasicInfo(hist) ==
    IF hist = "ok"
    THEN [volume |-> Num(1000000), day_high |-> Num(101000),
          day_low |-> Num(99000), open |-> Num(100000)]
    ELSE [volume |-> PyNone, day_high |-> PyNone,
          day_low |-> PyNone, open |-> PyNone]

\* how the try at line 705 ends: its bare except (lines 713-714) passes
HistoryTryUncaught(hist) == IF hist = "raise" THEN "raise" ELSE "done"
HistoryTry(hist) == IF hist = "raise" THEN "pass" ELSE "done"

Exchange(suffix) == IF suffix = ".NS" THEN "NSE" ELSE "BSE"

\* the dict built by the return statement
Quote(symbol, suffix, current_price, previous_close, change, change_percent, market_cap, basic_info) ==
    [symbol |-> symbol,
     yahoo_symbol |-> <<symbol, suffix>>,
     name |-> symbol,
     price |-> Round2(current_price),
     change |-> Round2(change),
     change_percent |-> Round2(change_percent),
     volume |-> basic_info.volume,
     market_cap |-> market_cap,
     previous_close |-> IF Truthy(previous_close) THEN previous_close ELSE PyNone,
     day_high |-> basic_info.day_high,
     day_low |-> basic_info.day_low,
     open |-> basic_info.open,
     exchange |-> Exchange(suffix),
     currency |-> "INR",
     source |-> "Yahoo Finance Fast"]

\* the body of the try at line 687, before any handler
FastInfoBody(symbol, suffix, r) ==
    IF r.fast_info = "raise" THEN Raise
    ELSE IF r.fast_info = "falsy" THEN Continue
    ELSE
      LET current_price == DictGet(r.lastPrice, PyNone)
      IN  IF ~Truthy(current_price) THEN Continue
          ELSE IF ~IsNumber(current_price) THEN Raise     \* str <= 0
          ELSE IF current_price.t = "num" /\ current_price.v <= 0 THEN Continue
          ELSE
            LET previous_close == DictGet(r.previousClose, current_price)
                market_cap == DictGet(r.marketCap, PyNone)
            IN  IF ~IsNumber(previous_close) THEN Raise   \* number - None
                ELSE
                  LET change == Sub(current_price, previous_close)
                      change_percent == ChangePercent(change, previous_close)
                  IN  IF change_percent = ZeroDivisionError THEN Raise
                      ELSE IF HistoryTry(r.hist) = "raise" THEN Raise
                      ELSE Return(Quote(symbol, suffix, current_price,
                                        previous_close, change, change_percent,
                                        market_cap, BasicInfo(r.hist)))

\* except Exception: continue
ExceptContinue(o) == IF o.kind = "raise" THEN Continue ELSE o

\* the body of the try at line 682: yf.Ticker, then the inner try and its
\* handler
TickerBody(symbol, suffix, r) ==
    IF r.ticker = "raise" THEN Raise
    ELSE ExceptContinue(FastInfoBody(symbol, suffix, r))

\* one iteration of the for loop over the suffixes, handlers included
SuffixAttempt(symbol, suffix, r) == ExceptContinue(TickerBody(symbol, suffix, r))

\* one iteration with no handler at all
SuffixAttemptRaw(symbol, suffix, r) ==
    IF r.ticker = "raise" THEN Raise ELSE FastInfoBody(symbol, suffix, r)

\* the for loop from suffix number i on; tried is the list of the suffixes
\* attempted so far
RECURSIVE SuffixLoop(_, _, _, _)
SuffixLoop(symbol, resp, i, tried) ==
    IF i > Len(Suffixes) THEN [kind |-> "exhausted", val |-> <<>>, tried |-> tried]
    ELSE LET suffix == Suffixes[i]
             o == SuffixAttempt(symbol, suffix, resp[suffix])
             now == Append(tried, suffix)
         IN  IF o.kind = "continue" THEN SuffixLoop(symbol, resp, i + 1, now)
             ELSE [kind |-> o.kind, val |-> o.val, tried |-> now]

RECURSIVE SuffixLoopRaw(_, _, _, _)
SuffixLoopRaw(symbol, resp, i, tried) ==
    IF i > Len(Suffixes) THEN [kind |-> "exhausted", val |-> <<>>, tried |-> tried]
    ELSE LET suffix == Suffixes[i]
             o == SuffixAttemptRaw(symbol, suffix, resp[suffix])
             now == Append(tried, suffix)
         IN  IF o.kind = "continue" THEN SuffixLoopRaw(symbol, resp, i + 1, now)
             ELSE [kind |-> o.kind, val |-> o.val, tried |-> now]

\* the function without its three try/except blocks
get_stock_data_yahoo_fast_unguarded(symbol, resp) ==
    LET o == SuffixLoopRaw(symbol, resp, 1, <<>>)
    IN  [kind |-> IF o.kind = "raise" THEN "raise" ELSE "return",
         val |-> o.val, tried |-> o.tried]

\* the whole function: kind is "return" (val is <<>> for None, <<quote>>
\* otherwise) or "raise"
get_stock_data_yahoo_fast(symbol, resp) ==
    LET o == SuffixLoop(symbol, resp, 1, <<>>)
    IN  \* except Exception as e: log, then fall through to return None
        [kind |-> "return",
         val |-> IF o.kind = "return" THEN o.val ELSE <<>>,
         tried |-> o.tried]

-----------------------------------------------------------------------------
(* What the yfinance calls answer for one suffix *)

\* lastPrice values the test at line 694 rejects, and values it lets through
PricesRejected == {Missing, PyNone, Str, Num(0), Num(-1000)}
PricesAccepted == {NaN, Num(4), Num(100000)}
PreviousCloses == {Missing, PyNone, Str, Num(0), Num(90000)}
HistAnswers == {"raise", "empty", "ok"}

Answer(ticker, fast_info, lastPrice, previousClose, hist) ==
    [ticker |-> ticker, fast_info |-> fast_info, lastPrice |-> lastPrice,
     previousClose |-> previousClose, marketCap |-> Missing, hist |-> hist]

\* yf.Ticker(...) raises
TickerFails == Answer("raise", "raise", Missing, Missing, "empty")

SuffixResponses ==
    {TickerFails,
     Answer("ok", "raise", Missing, Missing, "empty"),
     Answer("ok", "falsy", Missing, Missing, "empty")}
    \cup {Answer("ok", "ok", p, Missing, "empty") : p \in PricesRejected}
    \cup {Answer("ok", "ok", p, c, h) :
             p \in PricesAccepted, c \in PreviousCloses, h \in HistAnswers}

Responses == [{".NS", ".BO"} -> SuffixResponses]

Both(ns, bo) == [s \in {".NS", ".BO"} |-> IF s = ".NS" THEN ns ELSE bo]

\* the answers the Dispatcher's tasks meet: a quote on .NS, a quote on .BO
\* only, no data on either suffix, and a price below half a hundredth
TaskResponses ==
    {Both(Answer("ok", "ok", Num(100000), Num(90000), "ok"), TickerFails),
     Both(TickerFails, Answer("ok", "ok", Num(100000), Missing, "empty")),
     Both(TickerFails, TickerFails),
     Both(Answer("ok", "ok", Num(4), Missing, "empty"), TickerFails)}

-----------------------------------------------------------------------------
(* Strings: sequences of one-character strings *)

Min(a, b) == IF a < b THEN a ELSE b
Range(seq) == {seq[i] : i \in 1..Len(seq)}

UpperCase == <<"A", "B", "C", "D", "E", "F", "G", "H", "I", "J", "K", "L", "M", "N", "O", "P", "Q", "R", "S", "T", "U", "V", "W", "X", "Y", "Z">>
LowerCase == <<"a", "b", "c", "d", "e", "f", "g", "h", "i", "j", "k", "l", "m", "n", "o", "p", "q", "r", "s", "t", "u", "v", "w", "x", "y", "z">>
Digits == {"0", "1", "2", "3", "4", "5", "6", "7", "8", "9"}
Capitals == Range(UpperCase)
Smalls == Range(LowerCase)
Letters == Capitals \cup Smalls
Whitespace == {" ", "\t"}

ToUpper == [c \in Smalls |-> UpperCase[CHOOSE i \in 1..Len(LowerCase) : LowerCase[i] = c]]
ToLower == [c \in Capitals |-> LowerCase[CHOOSE i \in 1..Len(UpperCase) : UpperCase[i] = c]]

UpperChar(c) == IF c \in Smalls THEN ToUpper[c] ELSE c
LowerChar(c) == IF c \in Capitals THEN ToLower[c] ELSE c

\* str.upper(), str.lower()
upper(s) == [i \in 1..Len(s) |-> UpperChar(s[i])]
lower(s) == [i \in 1..Len(s) |-> LowerChar(s[i])]

\* str.strip(): without leading and trailing whitespace
strip(s) ==
    LET inked == {i \in 1..Len(s) : s[i] \notin Whitespace}
    IN  IF inked = {} THEN <<>>
        ELSE SubSeq(s, CHOOSE i \in inked : \A j \in inked : i <= j,
                       CHOOSE i \in inked : \A j \in inked : i >= j)

\* str.isalnum()
isalnum(s) == Len(s) > 0 /\ \A i \in 1..Len(s) : s[i] \in Letters \cup Digits

\* str.isalpha()
isalpha(s) == Len(s) > 0 /\ \A i \in 1..Len(s) : s[i] \in Letters

-----------------------------------------------------------------------------
(* Values the symbol sources handle: JSON values, and the strings, numbers *)
(* and None that end up in their sets                                      *)

JStr(s) == [k |-> "str", s |-> s, items |-> <<>>]
JNull == [k |-> "null", s |-> <<>>, items |-> <<>>]
JNum == [k |-> "num", s |-> <<>>, items |-> <<>>]      \* a non-zero number
JList(items) == [k |-> "list", s |-> <<>>, items |-> items]
\* a dict is its sequence of entries, each a key and a value; keys differ
JEntry(key, val) == [k |-> "entry", s |-> key, items |-> <<val>>]
JDict(entries) == [k |-> "dict", s |-> <<>>, items |-> entries]

\* bool(x)
JTruthy(x) ==
    CASE x.k = "str" -> x.s # <<>>
      [] x.k = "null" -> FALSE
      [] x.k = "num" -> TRUE
      [] OTHER -> x.items # <<>>

\* set.add(x) raises TypeError for a list or a dict
Hashable(x) == x.k \in {"str", "null", "num"}

\* key in d, d[key]
HasKey(d, key) == \E i \in 1..Len(d.items) : d.items[i].s = key
Get(d, key) == (CHOOSE e \in Range(d.items) : e.s = key).items[1]

K_data == <<"d", "a", "t", "a">>
K_index == <<"i", "n", "d", "e", "x">>
K_symbol == <<"s", "y", "m", "b", "o", "l">>
K_symbols == <<"s", "y", "m", "b", "o", "l", "s">>
K_Symbol == <<"S", "y", "m", "b", "o", "l">>
K_SYMBOL == <<"S", "Y", "M", "B", "O", "L">>

\* outcomes of a block that builds a set
SymRaise == [kind |-> "raise", val |-> {}]
SymOk(set) == [kind |-> "ok", val |-> set]

\* the set is built unless one of the values added to it is unhashable, in
\* which case the statement raises and what was added so far is dropped with
\* the local set
AddAll(values) == IF \A x \in values : Hashable(x) THEN SymOk(values) ELSE SymRaise

-----------------------------------------------------------------------------
(* get_symbols_from_trading_APIs *)

\* lines 387-392: the items of data['data']
FromDataList(items) ==
    AddAll({Get(item, K_symbol) : item \in
              {it \in Range(items) :
                 /\ it.k = "dict"
                 /\ HasKey(it, K_symbol)
                 /\ JTruthy(Get(it, K_symbol))
                 /\ Get(it, K_symbol) # (IF HasKey(it, K_index) THEN Get(it, K_index) ELSE JStr(<<>>))}})

\* lines 394-399: data is a list
FromList(items) ==
    AddAll({Get(p[1], p[2]) : p \in
              {q \in Range(items) \X {K_symbol, K_Symbol, K_SYMBOL} :
                 /\ q[1].k = "dict"
                 /\ HasKey(q[1], q[2])
                 /\ JTruthy(Get(q[1], q[2]))}})

\* lines 403-416: the values extract_symbols_recursive adds to its sets
RECURSIVE Extracted(_)
Extracted(obj) ==
    IF obj.k = "dict"
    THEN UNION {IF lower(e.s) \in {K_symbol, K_symbols} /\ e.items[1].k \in {"str", "list"}
                THEN IF e.items[1].k = "str" THEN {e.items[1]} ELSE Range(e.items[1].items)
                ELSE IF e.items[1].k \in {"dict", "list"} THEN Extracted(e.items[1])
                ELSE {} : e \in Range(obj.items)}
    ELSE IF obj.k = "list" THEN UNION {Extracted(x) : x \in Range(obj.items)}
    ELSE {}

extract_symbols_recursive(obj) == AddAll(Extracted(obj))

\* what one endpoint answers: session.get raises or returns a response with
\* a status code, whose json() raises or returns data
EndpointAnswer(get, status_code, json, data) == [get |-> get, status_code |-> status_code, json |-> json, data |-> data]

\* sub in s, for strings
Contains(s, sub) == \E i \in 1..(Len(s) - Len(sub) + 1) : SubSeq(s, i, i + Len(sub) - 1) = sub

\* the body of the try at line 377, before its handler. 'data' in data
\* raises TypeError for None and for a number; for a list it asks whether
\* the string is an element and for a string whether it is a substring, and
\* data['data'] then raises TypeError
EndpointBody(a) ==
    IF a.get = "raise" THEN SymRaise
    ELSE IF a.status_code # 200 THEN SymOk({})
    ELSE IF a.json = "raise" THEN SymRaise
    ELSE IF a.data.k \in {"null", "num"} THEN SymRaise
    ELSE IF a.data.k = "list" /\ JStr(K_data) \in Range(a.data.items) THEN SymRaise
    ELSE IF a.data.k = "str" /\ Contains(a.data.s, K_data) THEN SymRaise
    ELSE IF a.data.k = "dict" /\ HasKey(a.data, K_data) /\ Get(a.data, K_data).k = "list"
         THEN FromDataList(Get(a.data, K_data).items)
    ELSE IF a.data.k = "list" THEN FromList(a.data.items)
    ELSE IF a.data.k = "dict" THEN extract_symbols_recursive(a.data)
    ELSE SymOk({})

EndpointAttemptUnguarded(a) == EndpointBody(a)

\* except Exception as e: ... continue (line 428)
EndpointAttempt(a) == LET o == EndpointBody(a) IN IF o.kind = "raise" THEN SymOk({}) ELSE o

\* the loop over nse_endpoints: an exception that leaves an iteration ends
\* the function, otherwise symbols.update(extracted_symbols) each time
get_symbols_from_trading_APIs(api) ==
    LET attempts == [i \in 1..Len(api) |-> EndpointAttempt(api[i])]
    IN  IF \E i \in 1..Len(api) : attempts[i].kind = "raise" THEN SymRaise
        ELSE SymOk(UNION {attempts[i].val : i \in 1..Len(api)})

-----------------------------------------------------------------------------
(* get_active_nse_symbols_from_bhavcopy *)

\* what one day of the loop meets: a weekend day, or session.get and what
\* follows it; symbols are the values of the SYMBOL column
DayAnswer(kind, symbols) == [kind |-> kind, symbols |-> symbols]

\* the body of the try at line 72 with its handler (line 103): "found"
\* reaches the break, every other kind moves to the next day
DayFound(d) == d.kind = "ok"

\* the first day that has a bhav copy with a SYMBOL column decides; the
\* outer handler (line 107) lets nothing out
get_active_nse_symbols_from_bhavcopy(days) ==
    LET found == {i \in 1..Len(days) : DayFound(days[i])}
    IN  IF found = {} THEN SymOk({})
        ELSE SymOk(days[CHOOSE i \in found : \A j \in found : i <= j].symbols)

-----------------------------------------------------------------------------
(* get_symbols_from_marketwatch_screener *)

\* what a site answers: kind "raise" (session.get or the parsing raises),
\* "status" (not 200) or "ok" with the texts found in the page
SiteAnswer(kind, texts) == [kind |-> kind, texts |-> texts]

\* the longest prefix of s made of characters of class
LeadingRun(s, class) ==
    LET n == CHOOSE m \in 0..Len(s) :
                 /\ \A i \in 1..m : s[i] \in class
                 /\ m < Len(s) => s[m + 1] \notin class
    IN  SubSeq(s, 1, n)

\* re.search(r'sc_id=([A-Z0-9&]+)', href) then .split('&')[0], for the text
\* that follows sc_id= in the href: <<>> when there is no match
SymbolPart(text) == LeadingRun(LeadingRun(text, Capitals \cup Digits \cup {"&"}), Capitals \cup Digits)

\* lines 285-305; texts are what follows sc_id= in the matching links
MoneyControl(a) ==
    IF a.kind # "ok" THEN {}
    ELSE {JStr(x) : x \in {y \in {SymbolPart(z) : z \in a.texts} : y # <<>> /\ Len(y) <= 20}}

\* lines 313-327; texts are the words of response.text: re.findall with
\* \b[A-Z]{2,15}\b yields the words made of 2 to 15 capital letters
Screener(a) ==
    IF a.kind # "ok" THEN {}
    ELSE LET potential_symbols == {w \in a.texts : Len(w) >= 2 /\ Len(w) <= 15 /\ \A i \in 1..Len(w) : w[i] \in Capitals}
         IN  {JStr(x) : x \in {w \in potential_symbols : 2 <= Len(w) /\ Len(w) <= 15 /\ isalpha(w)}}

\* every handler of the function catches Exception: nothing gets out
get_symbols_from_marketwatch_screener(mc, screener_urls) ==
    SymOk(MoneyControl(mc) \cup UNION {Screener(screener_urls[i]) : i \in 1..Len(screener_urls)})

-----------------------------------------------------------------------------
(* The static lists and get_comprehensive_symbol_list *)

BSE == <<"B", "S", "E">>
SBI_CARDS == <<"S", "B", "I", "_", "C", "A", "R", "D", "S">>
BAJAJ_AUTO == <<"B", "A", "J", "A", "J", "-", "A", "U", "T", "O">>
M_AND_M == <<"M", "&", "M">>
FIVEPAISA == <<"5", "P", "A", "I", "S", "A">>

\* the entries of the two lists by kind: AAA stands for the alphabetic
\* tickers (both lists have many in common), the others are entries the lists
\* really have
get_startup_unicorn_symbols == {JStr(AAA), JStr(BSE), JStr(SBI_CARDS), JStr(FIVEPAISA)}
get_known_active_symbols == {JStr(AAA), JStr(BSE), JStr(BAJAJ_AUTO), JStr(M_AND_M), JStr(SBI_CARDS), JStr(FIVEPAISA)}

RejectedNames == {<<"I", "N", "D", "E", "X">>, <<"N", "I", "F", "T", "Y">>, <<"S", "E", "N", "S", "E", "X">>, BSE, <<"N", "S", "E">>}

\* s.isalnum() in the place of s.isalpha()
ValidSymbolAlnum(s) == isalnum(s) /\ 2 <= Len(s) /\ Len(s) <= 20 /\ s \notin RejectedNames

\* the test of lines 469-471 on clean_symbol
ValidSymbol(s) == isalpha(s) /\ 2 <= Len(s) /\ Len(s) <= 20 /\ s \notin RejectedNames

\* lines 463-473
CleanSymbols(all_symbols) ==
    LET clean_symbol == {upper(strip(x.s)) : x \in {y \in all_symbols : JTruthy(y) /\ y.k = "str"}}
    IN  {s \in clean_symbol : ValidSymbol(s)}

-----------------------------------------------------------------------------
(* What the remote symbol sources answer *)

\* number of entries of nse_endpoints (line 338), scaled down
NumEndpoints == 2
\* number of days the bhav copy loop tries (line 71), scaled down
NumDays == 2

Word(c, n) == [i \in 1..n |-> c]
Padded(s) == <<" ">> \o s \o <<" ", "\t">>
NIFTY == <<"N", "I", "F", "T", "Y">>

GetRaises == EndpointAnswer("raise", 0, "raise", JNull)
Status503 == EndpointAnswer("ok", 503, "raise", JNull)
JsonRaises == EndpointAnswer("ok", 200, "raise", JNull)
Json(data) == EndpointAnswer("ok", 200, "ok", data)

\* {"data": [{"symbol": " bbb \t", "index": "NIFTY"},
\*           {"symbol": "NIFTY", "index": "NIFTY"}, {"symbol": ""}, "x"]}
DataListGood ==
    Json(JDict(<<JEntry(K_data, JList(<<
        JDict(<<JEntry(K_symbol, JStr(Padded(lower(BBB)))), JEntry(K_index, JStr(NIFTY))>>),
        JDict(<<JEntry(K_symbol, JStr(NIFTY)), JEntry(K_index, JStr(NIFTY))>>),
        JDict(<<JEntry(K_symbol, JStr(<<>>))>>),
        JStr(<<"x">>)>>))>>))

\* {"data": [{"symbol": "CCC"}, {"symbol": ["CCC"]}]}
DataListMalformed ==
    Json(JDict(<<JEntry(K_data, JList(<<
        JDict(<<JEntry(K_symbol, JStr(CCC))>>),
        JDict(<<JEntry(K_symbol, JList(<<JStr(CCC)>>))>>)>>))>>))

\* [{"Symbol": "ccc"}, {"SYMBOL": 7}, {"symbol": null}]
PlainList ==
    Json(JList(<<JDict(<<JEntry(K_Symbol, JStr(lower(CCC)))>>),
                 JDict(<<JEntry(K_SYMBOL, JNum)>>),
                 JDict(<<JEntry(K_symbol, JNull)>>)>>))

\* {"data": {"SYMBOLS": ["aaa", null, "", "A-B", "ZZ", 21 letters]},
\*  "symbol": "a1"}
Nested ==
    Json(JDict(<<JEntry(K_data, JDict(<<JEntry(upper(K_symbols),
                    JList(<<JStr(lower(AAA)), JNull, JStr(<<>>), JStr(<<"A", "-", "B">>),
                            JStr(Word("Z", 2)), JStr(Word("Z", 21))>>))>>)),
                 JEntry(K_symbol, JStr(<<"a", "1">>))>>))

\* {"symbols": [["x"]]}
NestedMalformed ==
    Json(JDict(<<JEntry(K_symbols, JList(<<JList(<<JStr(<<"x">>)>>)>>))>>))

EndpointAnswers ==
    {GetRaises, Status503, JsonRaises, Json(JNull), DataListGood,
     DataListMalformed, PlainList, Nested, NestedMalformed}

\* the SYMBOL column of a bhav copy: a padded lowercase name, a name, NaN, a
\* name of 20 letters, a name with an underscore, a single letter
BhavColumn == {JStr(Padded(lower(BBB))), JStr(CCC), JNum, JStr(Word("Y", 20)), JStr(<<"A", "_", "B">>), JStr(<<"A">>)}

DayAnswers ==
    {DayAnswer("weekend", {}), DayAnswer("raise", {}), DayAnswer("status", {}),
     DayAnswer("nocolumn", {}), DayAnswer("ok", BhavColumn)}

\* sc_id=CCC&x, sc_id=A1B, sc_id=&, sc_id=abc
McAnswers ==
    {SiteAnswer("raise", {}), SiteAnswer("status", {}),
     SiteAnswer("ok", {<<"C", "C", "C", "&", "x">>, <<"A", "1", "B">>, <<"&">>, <<"a", "b", "c">>})}

ScreenerAnswers ==
    {SiteAnswer("raise", {}),
     SiteAnswer("ok", {BBB, <<"A", "b">>, Word("X", 16), <<"N", "S", "E">>, <<"A", "B", "_", "C", "D">>})}

\* every combination of answers, for discovery called on its own
AllApis == [1..NumEndpoints -> EndpointAnswers]
AllBhavs == [1..NumDays -> DayAnswers]
AllScreeners == McAnswers \X [1..2 -> ScreenerAnswers]

\* the answers a run of main meets. Each remote source fails by exceptions,
\* or answers without any usable symbol, or answers (after a failure of its
\* own) with names that are among Symbols
MainApis ==
    {[i \in 1..NumEndpoints |-> GetRaises],
     [i \in 1..NumEndpoints |-> IF i = 1 THEN DataListMalformed ELSE Status503],
     [i \in 1..NumEndpoints |-> IF i = 1 THEN NestedMalformed ELSE DataListGood]}
MainBhavs ==
    {[i \in 1..NumDays |-> DayAnswer("raise", {})],
     [i \in 1..NumDays |-> IF i = 1 THEN DayAnswer("weekend", {}) ELSE DayAnswer("nocolumn", {})],
     [i \in 1..NumDays |-> IF i = 1 THEN DayAnswer("status", {}) ELSE DayAnswer("ok", {JStr(Padded(lower(BBB))), JStr(CCC), JNum})]}
MainScreeners ==
    {<<SiteAnswer("raise", {}), <<SiteAnswer("raise", {}), SiteAnswer("raise", {})>>>>,
     <<SiteAnswer("status", {}), <<SiteAnswer("ok", {<<"A", "b">>}), SiteAnswer("raise", {})>>>>,
     <<SiteAnswer("ok", {<<"C", "C", "C", "&", "x">>}), <<SiteAnswer("raise", {}), SiteAnswer("ok", {CCC, <<"N", "S", "E">>})>>>>}

-----------------------------------------------------------------------------
(* scrape_active_stocks_parallel *)

\* batches = [symbols_list[i:i + batch_size] for i in range(0, len, batch_size)]
NumBatches == (Len(symbols_list) + batch_size - 1) \div batch_size
BatchesOverlapping ==
    [k \in 1..NumBatches |->
        SubSeq(symbols_list, IF k = 1 THEN 1 ELSE (k - 1) * batch_size,
               Min(k * batch_size, Len(symbols_list)))]
Batches ==
    [k \in 1..NumBatches |->
        SubSeq(symbols_list, (k - 1) * batch_size + 1,
               Min(k * batch_size, Len(symbols_list)))]

Batch == Batches[batch_num]
BatchOf(s) == CHOOSE k \in 1..NumBatches : s \in Range(Batches[k])

NotSubmitted == [st |-> "none", kind |-> "none", val |-> <<>>]
Done(kind, val) == [st |-> "finished", kind |-> kind, val |-> val]

\* fetches occupying a worker thread
Running == {s \in Symbols : fut[s].st \in {"running", "hung"}}

\* a worker thread of the executor is free to take the next queued task
WorkerAvailableUnbounded == TRUE
WorkerAvailable == Cardinality(Running) < pool

\* as_completed is exhausted: every future of the batch was handed out
AllCompletedFirstOnly == yielded # {}
AllCompleted == yielded = Range(Batch)

\* all_stocks.extend(batch_stocks)
ExtendTwice(all, batch) == all \o batch \o batch
ExtendOverwrites(all, batch) == batch
Extend(all, batch) == all \o batch

\* stock_data = future.result() inside try / except Exception
FutureResultUncaught(f) ==
    IF f.kind = "raise" THEN "propagate"
    ELSE IF f.val # <<>> THEN "append" ELSE "skip"
FutureResult(f) ==
    IF f.kind = "raise" THEN "skip"
    ELSE IF f.val # <<>> THEN "append" ELSE "skip"

\* ThreadPoolExecutor(max_workers=n) raises ValueError for n <= 0 (line 764)
PoolRaisesNever(n) == FALSE
PoolRaises(n) == n <= 0

\* for batch_num, batch in enumerate(batches, 1): ... with ThreadPoolExecutor(
\* max_workers=min(self.max_workers, len(batch))), which raises ValueError
\* for max_workers <= 0
BatchStart ==
    /\ pc = "for"
    /\ batch_num <= NumBatches
    /\ IF PoolRaises(Min(max_workers, Len(Batch)))
       THEN /\ pc' = "raised"
            /\ UNCHANGED <<pool, nsubmitted, yielded, completed,
                           success_count, batch_stocks>>
       ELSE /\ pc' = "submit"
            /\ pool' = Min(max_workers, Len(Batch))
            /\ nsubmitted' = 0
            /\ yielded' = {}
            /\ completed' = 0
            /\ success_count' = 0
            /\ batch_stocks' = <<>>
    /\ UNCHANGED <<max_workers, symbols_list, batch_num, fut, all_stocks,
                   sleeps, result, submits>>

\* executor.submit(self.get_stock_data_yahoo_fast, symbol), in batch order
Submit ==
    /\ pc = "submit"
    /\ nsubmitted < Len(Batch)
    /\ nsubmitted' = nsubmitted + 1
    /\ fut' = [fut EXCEPT ![Batch[nsubmitted + 1]].st = "pending"]
    /\ submits' = [submits EXCEPT ![Batch[nsubmitted + 1]] = @ + 1]
    /\ UNCHANGED <<max_workers, symbols_list, pc, batch_num, pool, yielded,
                   completed, success_count, batch_stocks, all_stocks,
                   sleeps, result>>

\* the dict comprehension is complete: for future in as_completed(...)
BeginCollect ==
    /\ pc = "submit"
    /\ nsubmitted = Len(Batch)
    /\ pc' = "collect"
    /\ UNCHANGED <<max_workers, symbols_list, batch_num, pool, nsubmitted,
                   fut, yielded, completed, success_count, batch_stocks,
                   all_stocks, sleeps, result, submits>>

\* self.get_stock_data_yahoo_fast(symbol) for every symbol and every answer
\* a task can meet, computed once
FetchTable ==
    [s \in Symbols |->
        [r \in TaskResponses |-> get_stock_data_yahoo_fast(s, r)]]

\* a worker thread takes the task at the head of the executor's queue
Start(s) ==
    /\ pool > 0
    /\ fut[s].st = "pending"
    /\ \A i \in 1..Len(Batch) :
          fut[Batch[i]].st = "pending" =>
              \E j \in 1..i : Batch[j] = s
    /\ WorkerAvailable
    /\ fut' = [fut EXCEPT ![s].st = "running"]
    /\ UNCHANGED <<max_workers, symbols_list, pc, batch_num, pool,
                   nsubmitted, yielded, completed, success_count,
                   batch_stocks, all_stocks, sleeps, result, submits>>

\* the task's call of get_stock_data_yahoo_fast comes back
Finish(s) ==
    /\ fut[s].st = "running"
    /\ \E r \in TaskResponses :
         fut' = [fut EXCEPT ![s] = Done(FetchTable[s][r].kind,
                                        FetchTable[s][r].val)]
    /\ UNCHANGED <<max_workers, symbols_list, pc, batch_num, pool,
                   nsubmitted, yielded, completed, success_count,
                   batch_stocks, all_stocks, sleeps, result, submits>>

\* the task's callable raises (the future holds an exception): the case the
\* handler at line 793 is written for
TaskRaises(s) ==
    /\ fut[s].st = "running"
    /\ fut' = [fut EXCEPT ![s] = Done("raise", <<>>)]
    /\ UNCHANGED <<max_workers, symbols_list, pc, batch_num, pool,
                   nsubmitted, yielded, completed, success_count,
                   batch_stocks, all_stocks, sleeps, result, submits>>

\* the task's call blocks for ever in network I/O
Hang(s) ==
    /\ fut[s].st = "running"
    /\ fut' = [fut EXCEPT ![s].st = "hung"]
    /\ UNCHANGED <<max_workers, symbols_list, pc, batch_num, pool,
                   nsubmitted, yielded, completed, success_count,
                   batch_stocks, all_stocks, sleeps, result, submits>>

\* one iteration of the as_completed loop, for a finished future
Collect(s) ==
    /\ pc = "collect"
    /\ s \in Range(Batch)
    /\ s \notin yielded
    /\ fut[s].st = "finished"
    /\ yielded' = yielded \cup {s}
    /\ completed' = completed + 1
    /\ LET act == FutureResult(fut[s])
       IN  /\ batch_stocks' = IF act = "append"
                              THEN Append(batch_stocks, fut[s].val[1])
                              ELSE batch_stocks
           /\ success_count' = IF act = "append"
                               THEN success_count + 1 ELSE success_count
           /\ pc' = IF act = "propagate" THEN "raised" ELSE pc
    /\ UNCHANGED <<max_workers, symbols_list, batch_num, pool, nsubmitted,
                   fut, all_stocks, sleeps, result, submits>>

\* if batch_num < len(batches) (line 809)
PauseAlways == TRUE
PauseDue == batch_num < NumBatches

\* the loop and the with block end; batch summary; all_stocks.extend
BatchEnd ==
    /\ pc = "collect"
    /\ AllCompleted
    /\ pool' = 0
    /\ all_stocks' = Extend(all_stocks, batch_stocks)
    /\ IF PauseDue
       THEN pc' = "sleep" /\ batch_num' = batch_num
       ELSE pc' = "for" /\ batch_num' = batch_num + 1
    /\ UNCHANGED <<max_workers, symbols_list, nsubmitted, fut, yielded,
                   completed, success_count, batch_stocks, sleeps, result, submits>>

\* if batch_num < len(batches): time.sleep(1)
Sleep ==
    /\ pc = "sleep"
    /\ sleeps' = sleeps + 1
    /\ batch_num' = batch_num + 1
    /\ pc' = "for"
    /\ UNCHANGED <<max_workers, symbols_list, pool, nsubmitted, fut, yielded,
                   completed, success_count, batch_stocks, all_stocks, result, submits>>

\* return pd.DataFrame(all_stocks) if all_stocks else pd.DataFrame()
ReturnTable ==
    /\ pc = "for"
    /\ batch_num > NumBatches
    /\ pc' = "returned"
    /\ result' = all_stocks
    /\ UNCHANGED <<max_workers, symbols_list, batch_num, pool, nsubmitted,
                   fut, yielded, completed, success_count, batch_stocks,
                   all_stocks, sleeps, submits>>

-----------------------------------------------------------------------------
(* main: the cleaning step, lines 853-856 *)

\* the rows of table at the positions in keep, in table order
Pick(table, keep) ==
    LET F[i \in 0..Len(table)] ==
            IF i = 0 THEN <<>>
            ELSE IF i \in keep THEN Append(F[i - 1], table[i]) ELSE F[i - 1]
    IN  F[Len(table)]

\* stock_data.dropna(subset=['price']): None and NaN are missing values
dropna(table) == Pick(table, {i \in 1..Len(table) : table[i].price.t \notin {"None", "nan"}})

PricePositiveOrZero(table) == Pick(table, {i \in 1..Len(table) : table[i].price.v >= 0})

\* stock_data[stock_data['price'] > 0]
PricePositive(table) == Pick(table, {i \in 1..Len(table) : table[i].price.v > 0})

\* a loop that deletes a row equal in symbol to an earlier one while it walks
\* the table, and so steps over the row that follows each deleted row
Deleted(table) ==
    LET D[i \in 0..Len(table)] ==
            IF i = 0 THEN FALSE
            ELSE /\ \E j \in 1..(i - 1) : table[j].symbol = table[i].symbol
                 /\ ~D[i - 1]
    IN  {i \in 1..Len(table) : D[i]}

drop_duplicates_skipping(table) == Pick(table, (1..Len(table)) \ Deleted(table))

\* stock_data.drop_duplicates(subset=['symbol'], keep='first')
drop_duplicates(table) == Pick(table, {i \in 1..Len(table) : \A j \in 1..(i - 1) : table[j].symbol # table[i].symbol})

\* the three statements in order
Clean(table) == drop_duplicates(PricePositive(dropna(table)))

-----------------------------------------------------------------------------
(* main *)

\* list(symbols): the names of the set in the order of SymbolNames
ListOf(set) == SelectSeq(SymbolNames, LAMBDA x : x \in set)

\* what a source was answered: the source's name and the answers
SourceAnswer(source, got) == [source |-> source, got |-> got]

\* all_symbols (line 436): updated with the set of each source in turn
AllSymbols == UNION Range(source_sets)

\* the set a source returned is kept and the next source is called; nothing
\* in get_comprehensive_symbol_list catches an exception of a source, which
\* then leaves the try block of main
SourceReturns(o, next) ==
    /\ IF o.kind = "raise"
       THEN pc' = "discovery_raised" /\ UNCHANGED source_sets
       ELSE pc' = next /\ source_sets' = Append(source_sets, o.val)
    /\ UNCHANGED <<max_workers, symbols_list, batch_num, pool, nsubmitted,
                   fut, yielded, completed, success_count, batch_stocks,
                   all_stocks, sleeps, result, submits>>
    /\ UNCHANGED <<active_symbols, stock_data, main_ret, traceback>>

\* nse_symbols = self.get_symbols_from_trading_APIs() (lines 439-440)
CallTradingAPIs(answers) ==
    /\ pc = "apis"
    /\ \E api \in answers :
          /\ answer' = SourceAnswer("apis", api)
          /\ SourceReturns(get_symbols_from_trading_APIs(api), "bhavcopy")

\* bhav_symbols = self.get_active_nse_symbols_from_bhavcopy() (lines 444-445)
CallBhavCopy(answers) ==
    /\ pc = "bhavcopy"
    /\ \E days \in answers :
          /\ answer' = SourceAnswer("bhavcopy", days)
          /\ SourceReturns(get_active_nse_symbols_from_bhavcopy(days), "screener")

\* screener_symbols = self.get_symbols_from_marketwatch_screener() (449-450)
CallScreener(answers) ==
    /\ pc = "screener"
    /\ \E a \in answers :
          /\ answer' = SourceAnswer("screener", a)
          /\ SourceReturns(get_symbols_from_marketwatch_screener(a[1], a[2]), "static")

\* the two static lists (lines 454-460)
CallStatic ==
    /\ pc = "static"
    /\ pc' = "validate"
    /\ source_sets' = source_sets \o <<get_startup_unicorn_symbols, get_known_active_symbols>>
    /\ answer' = SourceAnswer("static", <<>>)
    /\ UNCHANGED <<max_workers, symbols_list, batch_num, pool, nsubmitted,
                   fut, yielded, completed, success_count, batch_stocks,
                   all_stocks, sleeps, result, submits>>
    /\ UNCHANGED <<active_symbols, stock_data, main_ret, traceback>>

\* lines 463-476 and the return to main (line 830). The sets of the sources
\* stay in the state until the next call of main
Validate ==
    /\ pc = "validate"
    /\ pc' = "discovered"
    /\ active_symbols' = CleanSymbols(AllSymbols)
    /\ UNCHANGED <<max_workers, symbols_list, batch_num, pool, nsubmitted,
                   fut, yielded, completed, success_count, batch_stocks,
                   all_stocks, sleeps, result, submits>>
    /\ UNCHANGED <<answer, source_sets, stock_data, main_ret, traceback>>

\* scraper.scrape_active_stocks_parallel(active_symbols) is called (line 845)
\* and symbols_list = list(symbols) (line 749)
CallScrape ==
    /\ pc = "discovered"
    /\ pc' = "for"
    /\ symbols_list' = ListOf(active_symbols)
    /\ source_sets' = <<>>
    /\ answer' = SourceAnswer("none", <<>>)
    /\ UNCHANGED <<max_workers, batch_num, pool, nsubmitted, fut, yielded,
                   completed, success_count, batch_stocks, all_stocks,
                   sleeps, result, submits>>
    /\ UNCHANGED <<active_symbols, stock_data, main_ret, traceback>>

\* stock_data.empty (line 848)
EmptyNever(table) == FALSE
Empty(table) == table = <<>>

\* if not stock_data.empty: the three cleaning statements (lines 848-856)
CleanData ==
    /\ pc = "returned"
    /\ ~Empty(result)
    /\ stock_data' = Clean(result)
    /\ pc' = "cleaned"
    /\ UNCHANGED <<max_workers, symbols_list, batch_num, pool, nsubmitted,
                   fut, yielded, completed, success_count, batch_stocks,
                   all_stocks, sleeps, result, submits>>
    /\ UNCHANGED <<answer, source_sets, active_symbols, main_ret, traceback>>

\* else: the no-data messages and return False (lines 942-945)
NoData ==
    /\ pc = "returned"
    /\ Empty(result)
    /\ main_ret' = "False"
    /\ pc' = "done"
    /\ UNCHANGED <<max_workers, symbols_list, batch_num, pool, nsubmitted,
                   fut, yielded, completed, success_count, batch_stocks,
                   all_stocks, sleeps, result, submits>>
    /\ UNCHANGED <<answer, source_sets, active_symbols, stock_data, traceback>>

\* the handler of main (lines 947-951): the message, traceback.print_exc()
\* and return False
ExceptReturnFalse ==
    /\ main_ret' = "False"
    /\ traceback' = TRUE
    /\ pc' = "done"
    /\ UNCHANGED <<max_workers, symbols_list, batch_num, pool, nsubmitted,
                   fut, yielded, completed, success_count, batch_stocks,
                   all_stocks, sleeps, result, submits>>
    /\ UNCHANGED <<answer, source_sets, active_symbols, stock_data>>

\* scraper_instance.save_comprehensive_data(stock_data) (line 864): the class
\* has no attribute of that name, the lookup raises AttributeError and the
\* handler of main runs
SaveData ==
    /\ pc = "cleaned"
    /\ ExceptReturnFalse

\* an exception raised by discovery or by scrape_active_stocks_parallel
\* reaches the handler of main
MainCatch ==
    /\ pc \in {"raised", "discovery_raised"}
    /\ ExceptReturnFalse

\* the steps of the thread that runs scrape_active_stocks_parallel
DispatchThread ==
    BatchStart \/ Submit \/ BeginCollect
    \/ (\E s \in Symbols : Collect(s)) \/ BatchEnd \/ Sleep \/ ReturnTable

MainThread ==
    CallTradingAPIs(MainApis) \/ CallBhavCopy(MainBhavs)
    \/ CallScreener(MainScreeners) \/ CallStatic \/ Validate
    \/ CallScrape \/ (DispatchThread /\ UNCHANGED mvars)
    \/ CleanData \/ NoData \/ SaveData \/ MainCatch

Worker(s) == Start(s) \/ Finish(s) \/ TaskRaises(s) \/ Hang(s)

-----------------------------------------------------------------------------
(* The cleaning step applied on its own to every small table *)

\* a row of a DataFrame built from Quotes, with the given price
CleanRow(symbol, price) ==
    [Quote(symbol, ".NS", Num(100000), Num(100000), Num(0), Num(0), PyNone, BasicInfo("empty")) EXCEPT !.price = price]

\* prices of the rows the step is applied to: usable ones, zero, negative
\* and the two missing values
CleanPrices == {Num(100000), Num(250000), Num(0), Num(-5000), NaN, PyNone}
CleanRows == {CleanRow(s, p) : s \in {AAA, BBB}, p \in CleanPrices}

\* every table of at most n rows
RECURSIVE Tables(_)
Tables(n) ==
    IF n = 0 THEN {<<>>}
    ELSE LET shorter == Tables(n - 1)
         IN  shorter \cup {Append(tb, r) : tb \in shorter, r \in CleanRows}

\* the three statements applied to the current table
CleanStep ==
    /\ c_runs < 2
    /\ c_table' = Clean(c_table)
    /\ c_runs' = c_runs + 1
    /\ UNCHANGED c_input

-----------------------------------------------------------------------------
(* get_stock_data_yahoo_fast called on its own, for every answer *)

FetchIdle ==
    /\ f_symbol = AAA
    /\ f_resp = Both(TickerFails, TickerFails)
    /\ f_pc = "idle"
    /\ f_tried = <<>>
    /\ f_result = <<>>

FetchCall ==
    /\ f_pc = "call"
    /\ LET o == get_stock_data_yahoo_fast(f_symbol, f_resp)
       IN  /\ f_pc' = IF o.kind = "raise" THEN "raised" ELSE "returned"
           /\ f_result' = o.val
           /\ f_tried' = o.tried
    /\ UNCHANGED <<f_symbol, f_resp>>

-----------------------------------------------------------------------------
(* Specifications *)

\* the scraper is used in one of two ways: main is run (pc "apis"), or
\* scrape_active_stocks_parallel is called with a set of symbols (pc "for"),
\* and what main does with the table that call returns follows
DispatchInit ==
    /\ max_workers \in (-1)..MaxWorkers
    /\ \/ /\ pc = "apis"
          /\ symbols_list = <<>>
       \/ /\ pc = "for"
          /\ \E n \in 0..MaxSymbols : symbols_list = SubSeq(SymbolNames, 1, n)
    /\ active_symbols = Range(symbols_list)
    /\ answer = SourceAnswer("none", <<>>)
    /\ source_sets = <<>>
    /\ batch_num = 1
    /\ pool = 0
    /\ nsubmitted = 0
    /\ fut = [s \in Symbols |-> NotSubmitted]
    /\ yielded = {}
    /\ completed = 0
    /\ success_count = 0
    /\ batch_stocks = <<>>
    /\ all_stocks = <<>>
    /\ sleeps = 0
    /\ result = <<>>
    /\ submits = [s \in Symbols |-> 0]
    /\ stock_data = <<>>
    /\ main_ret = "none"
    /\ traceback = FALSE

\* neither main nor the Dispatcher runs
DispatchIdle ==
    /\ max_workers = 1
    /\ symbols_list = <<>>
    /\ pc = "idle"
    /\ active_symbols = {}
    /\ answer = SourceAnswer("none", <<>>)
    /\ source_sets = <<>>
    /\ batch_num = 1
    /\ pool = 0
    /\ nsubmitted = 0
    /\ fut = [s \in Symbols |-> NotSubmitted]
    /\ yielded = {}
    /\ completed = 0
    /\ success_count = 0
    /\ batch_stocks = <<>>
    /\ all_stocks = <<>>
    /\ sleeps = 0
    /\ result = <<>>
    /\ submits = [s \in Symbols |-> 0]
    /\ stock_data = <<>>
    /\ main_ret = "none"
    /\ traceback = FALSE

CleanIdle ==
    /\ c_input = <<>>
    /\ c_table = <<>>
    /\ c_runs = 0

Init == DispatchInit /\ FetchIdle /\ CleanIdle

Next ==
    \/ CallTradingAPIs(MainApis) /\ UNCHANGED <<fvars, cvars>>
    \/ CallBhavCopy(MainBhavs) /\ UNCHANGED <<fvars, cvars>>
    \/ CallScreener(MainScreeners) /\ UNCHANGED <<fvars, cvars>>
    \/ CallStatic /\ UNCHANGED <<fvars, cvars>>
    \/ Validate /\ UNCHANGED <<fvars, cvars>>
    \/ CallScrape /\ UNCHANGED <<fvars, cvars>>
    \/ BatchStart /\ UNCHANGED <<mvars, fvars, cvars>>
    \/ Submit /\ UNCHANGED <<mvars, fvars, cvars>>
    \/ BeginCollect /\ UNCHANGED <<mvars, fvars, cvars>>
    \/ \E s \in Symbols : Start(s) /\ UNCHANGED <<mvars, fvars, cvars>>
    \/ \E s \in Symbols : Finish(s) /\ UNCHANGED <<mvars, fvars, cvars>>
    \/ \E s \in Symbols : TaskRaises(s) /\ UNCHANGED <<mvars, fvars, cvars>>
    \/ \E s \in Symbols : Hang(s) /\ UNCHANGED <<mvars, fvars, cvars>>
    \/ \E s \in Symbols : Collect(s) /\ UNCHANGED <<mvars, fvars, cvars>>
    \/ BatchEnd /\ UNCHANGED <<mvars, fvars, cvars>>
    \/ Sleep /\ UNCHANGED <<mvars, fvars, cvars>>
    \/ ReturnTable /\ UNCHANGED <<mvars, fvars, cvars>>
    \/ CleanData /\ UNCHANGED <<fvars, cvars>>
    \/ NoData /\ UNCHANGED <<fvars, cvars>>
    \/ SaveData /\ UNCHANGED <<fvars, cvars>>
    \/ MainCatch /\ UNCHANGED <<fvars, cvars>>

Spec == Init /\ [][Next]_vars

\* every thread that can take a step eventually takes one
FairSpec ==
    /\ Spec
    /\ WF_vars(MainThread /\ UNCHANGED <<fvars, cvars>>)
    /\ \A s \in Symbols : WF_vars(Worker(s) /\ UNCHANGED <<mvars, fvars, cvars>>)

FetchNext == FetchCall /\ UNCHANGED <<dvars, mvars, cvars>>

FetchStart ==
    /\ DispatchIdle
    /\ CleanIdle
    /\ f_symbol \in {AAA, BBB}
    /\ f_resp \in Responses
    /\ f_pc = "call"
    /\ f_tried = <<>>
    /\ f_result = <<>>

FetchSpec == FetchStart /\ [][FetchNext]_vars

CleanNext == CleanStep /\ UNCHANGED <<dvars, mvars, fvars>>

CleanStart ==
    /\ DispatchIdle
    /\ FetchIdle
    /\ c_input \in Tables(MaxRows)
    /\ c_table = c_input
    /\ c_runs = 0

CleanSpec == CleanStart /\ [][CleanNext]_vars

\* main is run, with every worker limit
MainStart ==
    /\ max_workers \in (-1)..MaxWorkers
    /\ pc = "apis"
    /\ symbols_list = <<>>
    /\ active_symbols = {}
    /\ answer = SourceAnswer("none", <<>>)
    /\ source_sets = <<>>
    /\ batch_num = 1
    /\ pool = 0
    /\ nsubmitted = 0
    /\ fut = [s \in Symbols |-> NotSubmitted]
    /\ yielded = {}
    /\ completed = 0
    /\ success_count = 0
    /\ batch_stocks = <<>>
    /\ all_stocks = <<>>
    /\ sleeps = 0
    /\ result = <<>>
    /\ submits = [s \in Symbols |-> 0]
    /\ stock_data = <<>>
    /\ main_ret = "none"
    /\ traceback = FALSE
    /\ FetchIdle
    /\ CleanIdle

MainSpec == MainStart /\ [][Next]_vars

\* get_comprehensive_symbol_list called on its own, for every answer
SymbolNext ==
    \/ CallTradingAPIs(AllApis) /\ UNCHANGED <<fvars, cvars>>
    \/ CallBhavCopy(AllBhavs) /\ UNCHANGED <<fvars, cvars>>
    \/ CallScreener(AllScreeners) /\ UNCHANGED <<fvars, cvars>>
    \/ CallStatic /\ UNCHANGED <<fvars, cvars>>
    \/ Validate /\ UNCHANGED <<fvars, cvars>>

SymbolStart ==
    /\ max_workers = 1
    /\ symbols_list = <<>>
    /\ pc = "apis"
    /\ active_symbols = {}
    /\ answer = SourceAnswer("none", <<>>)
    /\ source_sets = <<>>
    /\ batch_num = 1
    /\ pool = 0
    /\ nsubmitted = 0
    /\ fut = [s \in Symbols |-> NotSubmitted]
    /\ yielded = {}
    /\ completed = 0
    /\ success_count = 0
    /\ batch_stocks = <<>>
    /\ all_stocks = <<>>
    /\ sleeps = 0
    /\ result = <<>>
    /\ submits = [s \in Symbols |-> 0]
    /\ stock_data = <<>>
    /\ main_ret = "none"
    /\ traceback = FALSE
    /\ FetchIdle
    /\ CleanIdle

SymbolSpec == SymbolStart /\ [][SymbolNext]_vars

-----------------------------------------------------------------------------
(* Properties of the Dispatcher *)

Input == Range(symbols_list)
AnyHung == \E s \in Symbols : fut[s].st = "hung"
HasQuote(s) == fut[s].st = "finished" /\ fut[s].val # <<>>
RowsOf(s, table) == {i \in 1..Len(table) : table[i].symbol = s}

\* the fetch of s is over and recorded: its Quote is a row of the returned
\* table, or s has no row at all
Resolved(s) ==
    /\ fut[s].st = "finished"
    /\ s \in yielded \/ BatchOf(s) < batch_num
    /\ IF fut[s].val # <<>>
       THEN \E i \in RowsOf(s, result) : result[i] = fut[s].val[1]
       ELSE RowsOf(s, result) = {}

\* C1: with a worker limit of at least 1 and fetches that all come back,
\* scrape_active_stocks_parallel returns, and when it returns every input
\* symbol's fetch is over and recorded as a Quote of the result or as absent.
C1_DispatcherLiveness ==
    /\ [](pc = "returned" => \A s \in Input : Resolved(s))
    /\ <>(pc = "returned" \/ max_workers < 1 \/ AnyHung)

C1_Witness ==
    /\ pc = "returned"
    /\ max_workers >= 1
    /\ Len(symbols_list) > max_workers
    /\ Len(symbols_list) > batch_size
    /\ \E s \in Input : HasQuote(s)
    /\ \E s \in Input : ~HasQuote(s)

\* C2: a hung fetch cannot block the run: when the dispatching thread waits
\* in as_completed and only hung fetches of the batch are outstanding, it can
\* still take a step (the batch timeout).
C2_BatchTimeout ==
    ( /\ pc = "collect"
      /\ \E s \in Range(Batch) : fut[s].st = "hung"
      /\ \A s \in Range(Batch) : fut[s].st = "hung" \/ s \in yielded )
    => ENABLED MainThread

\* the executor's bound while a batch is processed; no executor otherwise
WorkerBound ==
    IF pc \in {"submit", "collect"}
    THEN Min(max_workers, Len(Batch)) ELSE 0

\* C3: at most min(max_workers, len(batch)) fetches execute at a time, and a
\* queued task starts only from a state in which fewer than that many run.
C3_WorkerBound ==
    /\ [](Cardinality(Running) <= WorkerBound)
    /\ [][\A s \in Symbols :
            (fut[s].st = "pending" /\ fut'[s].st = "running")
                => Cardinality(Running) < WorkerBound]_vars

C3_Witness ==
    /\ pc \in {"submit", "collect"}
    /\ max_workers < Len(Batch)
    /\ Cardinality(Running) = max_workers
    /\ \E s \in Range(Batch) : fut[s].st = "pending"

InFlight(s) == fut[s].st \in {"pending", "running", "hung"}

\* C4: every fetch in flight belongs to the current batch, every fetch of an
\* earlier batch is over and no fetch of a later batch was submitted.
C4_BatchBarrier ==
    \A s \in Input :
        /\ InFlight(s) => BatchOf(s) = batch_num /\ pc \in {"submit", "collect"}
        /\ \A u \in Input :
              (BatchOf(s) < BatchOf(u) /\ fut[u].st # "none")
                  => fut[s].st = "finished"

C4_Witness ==
    /\ batch_num = 2
    /\ \E s \in Input : BatchOf(s) = 2 /\ fut[s].st = "running"
    /\ \E s \in Input : BatchOf(s) = 1 /\ HasQuote(s)

Raised(s) == fut[s].st = "finished" /\ fut[s].kind = "raise"

\* C5: a fetch task that raised leaves the run going: the Dispatcher does not
\* fail, and when it returns the symbol has no row, every other task is over
\* and every Quote of the other tasks is a row of the returned table.
C5_FailureIsolation ==
    \A s \in Input :
        Raised(s) =>
            /\ pc # "raised"
            /\ pc = "returned" =>
                  /\ RowsOf(s, result) = {}
                  /\ \A u \in Input \ {s} :
                        /\ fut[u].st = "finished"
                        /\ HasQuote(u) =>
                              \E i \in RowsOf(u, result) : result[i] = fut[u].val[1]

C5_Witness ==
    /\ pc = "returned"
    /\ \E s, u, w \in Input :
          /\ Raised(s) /\ BatchOf(s) = 1
          /\ u # s /\ BatchOf(u) = 1 /\ HasQuote(u)
          /\ BatchOf(w) = 2 /\ HasQuote(w)

-----------------------------------------------------------------------------
(* Properties of the Fetcher *)

IsQuote(q, symbol) ==
    /\ q.symbol = symbol
    /\ q.exchange \in {"NSE", "BSE"}
    /\ q.price.t \in {"num", "nan"}

\* C6: whatever the calls for the two suffixes do, the function returns None
\* or a Quote record; it never raises.
C6_NeverRaises ==
    /\ f_pc # "raised"
    /\ f_pc = "returned" =>
          f_result = <<>> \/ IsQuote(f_result[1], f_symbol)

C6_Witness ==
    /\ f_pc = "returned"
    /\ f_result = <<>>
    /\ f_resp[".NS"].fast_info = "ok" /\ f_resp[".NS"].lastPrice = Str
    /\ f_resp[".BO"].fast_info = "ok" /\ f_resp[".BO"].lastPrice = Num(100000)
    /\ f_resp[".BO"].previousClose = PyNone

\* the request for the suffix fails with a network error
TransientFailure(r) == r.ticker = "raise" \/ r.fast_info = "raise"
Attempts(suffix) ==
    Cardinality({i \in 1..Len(f_tried) : f_tried[i] = suffix})

\* C7: a suffix whose request fails with a network error (here on every
\* attempt) is tried 3 times before the Fetcher moves on.
C7_BoundedRetry ==
    f_pc = "returned" =>
        \A suffix \in Range(f_tried) :
            TransientFailure(f_resp[suffix]) => Attempts(suffix) = 3

\* the suffix answers with a present, positive price
YieldsPrice(r) ==
    /\ r.ticker = "ok" /\ r.fast_info = "ok"
    /\ r.lastPrice.t = "num" /\ r.lastPrice.v > 0

\* C8: .NS is tried before .BO; the returned Quote is that of the first suffix
\* answering with a present, positive price, tagged NSE or BSE accordingly;
\* None is returned only after both suffixes were tried and failed.
C8_VenuePriority ==
    f_pc = "returned" =>
        /\ f_tried \in {<<".NS">>, <<".NS", ".BO">>}
        /\ f_result # <<>> =>
              LET last == f_tried[Len(f_tried)]
              IN  /\ f_result[1].exchange = Exchange(last)
                  /\ f_result[1].yahoo_symbol = <<f_symbol, last>>
                  /\ YieldsPrice(f_resp[last])
                  /\ \A i \in 1..(Len(f_tried) - 1) :
                        ~YieldsPrice(f_resp[f_tried[i]])
        /\ f_result = <<>> =>
              /\ f_tried = <<".NS", ".BO">>
              /\ \A suffix \in {".NS", ".BO"} : ~YieldsPrice(f_resp[suffix])

\* C9: a suffix with a valid price and no usable previous close (missing, or
\* None) gives a Quote for that suffix with change = 0 and change_percent = 0.
C9_PreviousCloseFallback ==
    f_pc = "returned" =>
        \A suffix \in Range(f_tried) :
            ( /\ YieldsPrice(f_resp[suffix])
              /\ f_resp[suffix].previousClose \in {Missing, PyNone} )
            => /\ f_result # <<>>
               /\ f_result[1].exchange = Exchange(suffix)
               /\ f_result[1].change = Num(0)
               /\ f_result[1].change_percent = Num(0)

\* C10: the recorded price of every returned Quote is a number greater than 0.
C10_PricePositive ==
    (f_pc = "returned" /\ f_result # <<>>) =>
        f_result[1].price.t = "num" /\ f_result[1].price.v > 0

\* the suffix answers with a valid price and a previous close the change
\* can be computed from, so that ticker.history is called
HistoryCalled(r) ==
    /\ YieldsPrice(r)
    /\ IsNumber(DictGet(r.previousClose, r.lastPrice))

\* C23: when the history call of a suffix with a valid price raises or gives
\* an empty frame, the Fetcher returns the Quote of that suffix, without
\* going on to the next suffix, and its volume, day_high, day_low and open
\* are None.
C23_EnrichmentBestEffort ==
    f_pc = "returned" =>
        \A suffix \in Range(f_tried) :
            (HistoryCalled(f_resp[suffix]) /\ f_resp[suffix].hist \in {"raise", "empty"})
            => /\ f_result # <<>>
               /\ f_tried[Len(f_tried)] = suffix
               /\ f_result[1].exchange = Exchange(suffix)
               /\ f_result[1].price = Round2(f_resp[suffix].lastPrice)
               /\ f_result[1].volume = PyNone
               /\ f_result[1].day_high = PyNone
               /\ f_result[1].day_low = PyNone
               /\ f_result[1].open = PyNone

C23_Witness ==
    /\ f_pc = "returned"
    /\ f_resp[".NS"] = Answer("ok", "ok", Num(100000), Num(90000), "raise")
    /\ f_resp[".BO"] = Answer("ok", "ok", Num(100000), Num(90000), "ok")
    /\ f_tried = <<".NS">>
    /\ f_result # <<>>
    /\ f_result[1].exchange = "NSE"
    /\ f_result[1].volume = PyNone

\* C24: a suffix with a valid price and a previous close of 0 gives a Quote
\* for that suffix with change_percent = 0, change equal to the price, and
\* previous_close None.
C24_DivisionByZeroGuard ==
    f_pc = "returned" =>
        \A suffix \in Range(f_tried) :
            (YieldsPrice(f_resp[suffix]) /\ f_resp[suffix].previousClose = Num(0))
            => /\ f_result # <<>>
               /\ f_tried[Len(f_tried)] = suffix
               /\ f_result[1].exchange = Exchange(suffix)
               /\ f_result[1].change_percent = Num(0)
               /\ f_result[1].change = Round2(f_resp[suffix].lastPrice)
               /\ f_result[1].change = f_result[1].price
               /\ f_result[1].previous_close = PyNone

C24_Witness ==
    /\ f_pc = "returned"
    /\ f_resp[".NS"] = TickerFails
    /\ f_resp[".BO"] = Answer("ok", "ok", Num(100000), Num(0), "ok")
    /\ f_result # <<>>
    /\ f_result[1].exchange = "BSE"
    /\ f_result[1].change = Num(100000)
    /\ f_result[1].change_percent = Num(0)
    /\ f_result[1].previous_close = PyNone

-----------------------------------------------------------------------------
(* Properties of the cleaning step *)

\* a row whose price is a number above zero
Usable(q) == q.price.t = "num" /\ q.price.v > 0

\* C11: after the cleaning step every row has a price above zero, no two
\* rows share a symbol (as many distinct symbols as rows), and the row kept
\* for a symbol is the first row of the input table, in its order, that has
\* that symbol and a usable price; every symbol with such a row keeps one.
C11_CleanTable ==
    c_runs >= 1 =>
        /\ \A i \in 1..Len(c_table) : Usable(c_table[i])
        /\ Cardinality({c_table[i].symbol : i \in 1..Len(c_table)}) = Len(c_table)
        /\ \A i \in 1..Len(c_table) :
              \E k \in 1..Len(c_input) :
                 /\ c_input[k] = c_table[i]
                 /\ \A j \in 1..(k - 1) :
                       c_input[j].symbol = c_table[i].symbol => ~Usable(c_input[j])
        /\ \A k \in 1..Len(c_input) :
              Usable(c_input[k]) =>
                  \E i \in 1..Len(c_table) : c_table[i].symbol = c_input[k].symbol

C11_Witness ==
    /\ c_runs = 1
    /\ Len(c_input) = 3
    /\ c_input[1].symbol = c_input[2].symbol
    /\ c_input[2].symbol = c_input[3].symbol
    /\ c_input[1].price = Num(0)
    /\ Usable(c_input[2])
    /\ Usable(c_input[3])
    /\ c_input[2] # c_input[3]
    /\ c_table = <<c_input[2]>>

\* C12: the cleaning step applied to its own output returns that output, for
\* every input table, with or without duplicate symbols, missing prices and
\* prices that are not above zero.
C12_CleanIdempotent == [][c_runs >= 1 => c_table' = c_table]_vars

C12_Witness ==
    /\ c_runs = 2
    /\ Len(c_input) = 3
    /\ c_input[1].price \in {NaN, PyNone}
    /\ c_input[2].price.t = "num" /\ c_input[2].price.v <= 0
    /\ c_input[1].symbol = c_input[3].symbol
    /\ Len(c_table) = 1

-----------------------------------------------------------------------------
(* Properties of main and of the run as a whole *)

\* the fetches of the scenario of C13 are over: AAA got a Quote from a price
\* of 100 and a previous close of 90, BBB got nothing
Scenario ==
    /\ symbols_list = <<AAA, BBB>>
    /\ HasQuote(AAA)
    /\ fut[AAA].val[1].price = Num(100000)
    /\ fut[AAA].val[1].previous_close = Num(90000)
    /\ fut[BBB].st = "finished"
    /\ fut[BBB].val = <<>>

\* C13: for the symbols AAA and BBB, when the fetch of AAA yields price 100
\* and previous close 90 and the fetch of BBB yields nothing, the cleaned
\* table is exactly one Quote, of symbol AAA, with change 10.00 and
\* change_percent 11.11, in whatever order the two fetches complete.
C13_EndToEnd ==
    (pc \in {"cleaned", "done"} /\ Scenario) =>
        /\ Len(stock_data) = 1
        /\ stock_data[1] = fut[AAA].val[1]
        /\ stock_data[1].symbol = AAA
        /\ stock_data[1].change = Num(10000)
        /\ stock_data[1].change_percent = Num(11110)

C13_Witness ==
    /\ pc = "cleaned"
    /\ Scenario
    /\ max_workers = 2
    /\ stock_data # <<>>

\* C17: whenever main ends with at least one Quote in the cleaned table, the
\* table was saved and main returned True, without an exception or a stack
\* trace.
C17_SuccessfulRun ==
    (pc = "done" /\ stock_data # <<>>) => (main_ret = "True" /\ ~traceback)

\* the Quotes the fetches of the input symbols produced
Quotes == {fut[s].val[1] : s \in {x \in Input : HasQuote(x)}}

\* C18: the content of the returned table and of the cleaned table is
\* determined by the symbol set and the outcome of each symbol's fetch: the
\* returned table holds the Quotes the fetches produced, the cleaned table
\* those with a usable price, for every interleaving and completion order
\* and every worker limit of at least 1; only the row order varies.
C18_OrderIndependence ==
    /\ pc \in {"returned", "cleaned"} => Range(result) = Quotes
    /\ pc = "cleaned" => Range(stock_data) = {q \in Quotes : Usable(q)}

C18_Witness ==
    /\ pc = "cleaned"
    /\ max_workers >= 2
    /\ Len(stock_data) = 2
    /\ Len(result) = 3
    /\ stock_data[1].symbol = BBB
    /\ stock_data[2].symbol = AAA

\* C19: rows are appended by the dispatching thread only, one completed
\* future at a time: while a batch is collected the batch rows are the
\* Quotes of the futures handed to the loop so far, and the returned table
\* has as many rows as fetches returned a Quote, each Quote exactly once.
C19_NoLostOrDuplicated ==
    /\ pc = "collect" =>
          /\ Len(batch_stocks) = Cardinality({s \in yielded : HasQuote(s)})
          /\ \A s \in Range(Batch) :
                Cardinality({i \in 1..Len(batch_stocks) : HasQuote(s) /\ batch_stocks[i] = fut[s].val[1]})
                    = IF s \in yielded /\ HasQuote(s) THEN 1 ELSE 0
    /\ pc = "returned" =>
          /\ Len(result) = Cardinality({s \in Input : HasQuote(s)})
          /\ \A s \in Input :
                HasQuote(s) =>
                    Cardinality({i \in 1..Len(result) : result[i] = fut[s].val[1]}) = 1

C19_Witness ==
    /\ pc = "returned"
    /\ max_workers >= 2
    /\ NumBatches >= 2
    /\ Cardinality({s \in Input : HasQuote(s)}) >= 2
    /\ \E s \in Input : fut[s].kind = "raise"

-----------------------------------------------------------------------------
(* Properties of symbol discovery *)

\* the trimmed, uppercased form of a string
Normal(s) == upper(strip(s))

\* C14: every element of the set get_comprehensive_symbol_list returns is a
\* string without surrounding whitespace, in upper case, made of letters
\* (hyphen and underscore allowed), of 2 to 20 characters, and none of INDEX,
\* NIFTY, SENSEX, BSE, NSE, whatever the sources returned.
C14_ValidatedSymbols ==
    pc = "discovered" =>
        \A x \in active_symbols :
            /\ strip(x) = x
            /\ upper(x) = x
            /\ \A i \in 1..Len(x) : x[i] \in Letters \cup {"-", "_"}
            /\ 2 <= Len(x) /\ Len(x) <= 20
            /\ x \notin RejectedNames

C14_Witness ==
    /\ pc = "discovered"
    /\ {JNull, JNum, JStr(<<>>), JStr(Padded(lower(BBB))), JStr(Word("Z", 21)), JStr(<<"A">>)} \subseteq AllSymbols
    /\ {BBB, Word("Y", 20), Word("Z", 2)} \subseteq active_symbols
    /\ Word("Z", 21) \notin active_symbols

\* made of letters, hyphens and underscores only, of 2 to 20 characters and
\* not an index name
Acceptable(x) ==
    /\ \A i \in 1..Len(x) : x[i] \in Letters \cup {"-", "_"}
    /\ 2 <= Len(x) /\ Len(x) <= 20
    /\ x \notin RejectedNames

\* C15: a candidate string whose trimmed, uppercased form is made of
\* letters, hyphens and underscores, has 2 to 20 characters and is not an
\* index name is in the returned set, in that form.
C15_HyphenUnderscoreKept ==
    pc = "discovered" =>
        \A c \in AllSymbols :
            (c.k = "str" /\ Acceptable(Normal(c.s))) => Normal(c.s) \in active_symbols

DiscoveryStages == {"apis", "bhavcopy", "screener", "static", "validate"}

\* an endpoint fails, or its payload is malformed or has no symbol
EndpointFails(a) == EndpointBody(a).kind = "raise" \/ EndpointBody(a).val = {}
SiteFails(a) == a.kind # "ok"

\* C16: discovery never raises; an endpoint, a day or a site that fails or
\* has a malformed or empty payload adds nothing while the others of the
\* same source still add their symbols; the returned set is the validated
\* union of what the sources returned, which with all three remote sources
\* failing is the validated union of the two static lists and is not empty;
\* and that set is what the Dispatcher is called with.
C16_PartialSourceFailure ==
    /\ pc # "discovery_raised"
    /\ pc = "bhavcopy" =>
          source_sets[1] = UNION {EndpointBody(a).val : a \in {b \in Range(answer.got) : ~EndpointFails(b)}}
    /\ pc = "screener" =>
          /\ (\A i \in 1..Len(answer.got) : ~DayFound(answer.got[i])) => source_sets[2] = {}
          /\ \A i \in 1..Len(answer.got) :
                (DayFound(answer.got[i]) /\ \A j \in 1..(i - 1) : ~DayFound(answer.got[j]))
                    => source_sets[2] = answer.got[i].symbols
    /\ pc = "static" =>
          source_sets[3] = MoneyControl(answer.got[1]) \cup UNION {Screener(a) : a \in {b \in Range(answer.got[2]) : ~SiteFails(b)}}
    /\ pc = "discovered" =>
          /\ active_symbols = CleanSymbols(UNION {source_sets[i] : i \in 1..5})
          /\ (source_sets[1] = {} /\ source_sets[2] = {} /\ source_sets[3] = {}) =>
                /\ active_symbols = CleanSymbols(get_startup_unicorn_symbols \cup get_known_active_symbols)
                /\ active_symbols # {}
    /\ pc \notin DiscoveryStages \cup {"discovered", "discovery_raised", "idle"} =>
          Range(symbols_list) = active_symbols

C16_Witness ==
    /\ pc = "discovered"
    /\ source_sets[1] = {}
    /\ source_sets[2] # {}
    /\ source_sets[3] = {}
    /\ active_symbols = {AAA, BBB, CCC}

\* the names both static lists give
StaticDuplicates == CleanSymbols(get_startup_unicorn_symbols) \cap CleanSymbols(get_known_active_symbols)

\* the names that at least two of the five sources gave, in any spelling
MultiSourced ==
    {x \in active_symbols :
        Cardinality({i \in 1..Len(source_sets) : \E c \in source_sets[i] : c.k = "str" /\ Normal(c.s) = x}) >= 2}

\* C20: a symbol that two or more sources produce, also in spellings that
\* differ in case or surrounding whitespace, is one element of the set passed
\* to the Dispatcher and one entry of its list, exactly one fetch task is
\* submitted for it in the whole run, and the cleaned table has at most one
\* Quote for it, exactly one if its fetch returned a Quote.
C20_DuplicateAcrossSources ==
    /\ pc = "discovered" =>
          \A x \in MultiSourced : \A y \in active_symbols : Normal(y) = x => y = x
    /\ pc \notin DiscoveryStages \cup {"discovered", "discovery_raised", "idle"} =>
          \A x \in StaticDuplicates :
             /\ Cardinality({i \in 1..Len(symbols_list) : symbols_list[i] = x}) = 1
             /\ submits[x] <= 1
             /\ pc \in {"returned", "cleaned"} => submits[x] = 1
             /\ pc = "cleaned" =>
                   /\ Cardinality(RowsOf(x, stock_data)) <= 1
                   /\ HasQuote(x) => Cardinality(RowsOf(x, stock_data)) = 1

-----------------------------------------------------------------------------
(* Properties of the empty outcome, the batches, the pauses and the worker *)
(* limit                                                                   *)

\* scrape_active_stocks_parallel was called
Called == pc \notin DiscoveryStages \cup {"discovered", "discovery_raised", "idle"}

\* every fetch of the run is over and none gave a Quote
NothingFetched == \A s \in Input : fut[s].st = "finished" /\ fut[s].val = <<>>

\* C21: called with an empty symbol set, scrape_active_stocks_parallel
\* creates no pool, starts no fetch, does not pause and returns an empty
\* table; when every fetch returns nothing it returns an empty table too; in
\* both cases main returns False from its no-data branch and no exception
\* reaches its handler.
C21_EmptyOutcome ==
    /\ (Called /\ symbols_list = <<>>) =>
          /\ pc \in {"for", "returned", "done"}
          /\ pool = 0
          /\ sleeps = 0
          /\ \A s \in Symbols : fut[s].st = "none" /\ submits[s] = 0
    /\ (pc \in {"returned", "done"} /\ NothingFetched) => result = <<>>
    /\ (pc = "done" /\ NothingFetched) => (main_ret = "False" /\ ~traceback)

C21_Witness ==
    /\ pc = "done"
    /\ Len(symbols_list) > batch_size
    /\ NothingFetched
    /\ \E s \in Input : fut[s].kind = "raise"
    /\ \E s \in Input : fut[s].kind = "return"
    /\ main_ret = "False"

\* the first k batches one after the other
RECURSIVE Concat(_)
Concat(k) == IF k = 0 THEN <<>> ELSE Concat(k - 1) \o Batches[k]

\* the symbols a task was submitted for
Submitted == {s \in Symbols : submits[s] >= 1}

\* C22: the batches are consecutive pieces of the input list, pairwise
\* disjoint, none empty, none longer than batch_size and all but the last of
\* exactly that size, and together they are the whole input; tasks are
\* submitted batch by batch, at most one per symbol, and when the call
\* returns exactly one task was submitted for every input symbol.
C22_BatchPartition ==
    /\ Concat(NumBatches) = symbols_list
    /\ UNION {Range(Batches[k]) : k \in 1..NumBatches} = Input
    /\ \A k \in 1..NumBatches :
          /\ Len(Batches[k]) >= 1
          /\ Len(Batches[k]) <= batch_size
          /\ k < NumBatches => Len(Batches[k]) = batch_size
          /\ \A j \in 1..NumBatches :
                j # k => Range(Batches[j]) \cap Range(Batches[k]) = {}
    /\ \A s \in Symbols : submits[s] <= 1
    /\ Submitted \subseteq Input
    /\ pc \in {"submit", "collect"} =>
          Submitted = UNION {Range(Batches[k]) : k \in 1..(batch_num - 1)}
                        \cup {Batch[i] : i \in 1..nsubmitted}
    /\ pc \in {"returned", "cleaned"} => Submitted = Input

C22_Witness ==
    /\ pc = "returned"
    /\ NumBatches >= 2
    /\ Len(Batches[NumBatches]) < batch_size
    /\ \A s \in Input : submits[s] = 1

\* C25: the Dispatcher pauses once between two consecutive batches, after
\* the Quotes of the earlier one were appended to all_stocks: batch k starts
\* after k - 1 pauses (none before the first), no pause follows the last
\* batch, and a call that returns after B >= 1 batches made B - 1 pauses.
C25_InterBatchPause ==
    Called =>
        /\ (pc \in {"submit", "collect"} \/ (pc = "for" /\ batch_num <= NumBatches)) =>
              sleeps = batch_num - 1
        /\ pc = "sleep" =>
              /\ batch_num < NumBatches
              /\ sleeps = batch_num - 1
              /\ \A s \in Range(Batch) :
                    HasQuote(s) => \E i \in RowsOf(s, all_stocks) : all_stocks[i] = fut[s].val[1]
        /\ ((pc = "for" /\ batch_num > NumBatches) \/ pc \in {"returned", "cleaned"}) =>
              sleeps = IF NumBatches >= 1 THEN NumBatches - 1 ELSE 0
        /\ sleeps <= NumBatches

C25_Witness ==
    /\ pc = "returned"
    /\ NumBatches = 2
    /\ sleeps = 1
    /\ \E s \in Range(Batches[1]) : HasQuote(s)

\* the Dispatcher was called with symbols and a worker limit of 0 or less
NoWorkers == Called /\ max_workers <= 0 /\ symbols_list # <<>>

\* C26: with max_workers <= 0 and a non-empty symbol set,
\* scrape_active_stocks_parallel creates no pool, submits and starts no fetch
\* and returns no table: creating the pool of the first batch raises, the
\* handler of main catches the error and main returns False.
C26_NonPositiveWorkerLimit ==
    /\ [](NoWorkers =>
            /\ pc \in {"for", "raised", "done"}
            /\ pc = "for" => batch_num = 1
            /\ pool = 0
            /\ \A s \in Symbols : fut[s].st = "none" /\ submits[s] = 0
            /\ sleeps = 0
            /\ result = <<>>
            /\ pc = "done" => (main_ret = "False" /\ traceback))
    /\ (NoWorkers ~> (pc = "done" /\ main_ret = "False"))

C26_Witness ==
    /\ NoWorkers
    /\ max_workers < 0
    /\ Len(symbols_list) > batch_size
    /\ pc = "done"
    /\ main_ret = "False"
    /\ traceback

====
